---- MODULE Spec2Model ----
(***************************************************************************)
(* Credential and token lifecycle of ebook-go-further:                     *)
(*   internal/data/users.go  (password, Validate*, UserModel)              *)
(*   cmd/api/tokens.go       (authentication / reset / activation handlers) *)
(* Code of the repository that the sources call but do not contain         *)
(* (validator.Validator, data.TokenModel.New, app.background, the response  *)
(* helpers) is modelled from spec.md, sections 4.2, 4.3 and 4.5.            *)
(***************************************************************************)
EXTENDS Integers, Sequences, FiniteSets, TLC

VARIABLES
    users,        \* table users: id -> row
    tokens,       \* table tokens: set of rows (hash, user_id, expiry, scope)
    now,          \* wall clock, in hours
    nextTok,      \* number of random plaintexts drawn so far
    issued,       \* the Token structs New returned (what the holders were handed)
    reqs,         \* token-handler requests: locals, position, response
    tasks,        \* closures handed to app.background
    errLog,       \* app.logger.PrintError sink
    accesses,     \* accesses to a handler's locals made after app.background
    lastResolve,  \* the last UserModel.GetForToken call and what it returned
    lastAuth,     \* the last createAuthenticationHandler request and response
    cred,         \* a password struct (plainText *string, hash []byte)
    lastCall,     \* the last password.Set / Validate* call and its result
    v,            \* a validator.Validator (Errors map)
    failedChecks, \* history: the failed checks made on v, in order
    clients       \* callers of UserModel.Update: their *User and result

vars == <<users, tokens, now, nextTok, issued, reqs, tasks, errLog, accesses,
          lastResolve, lastAuth, cred, lastCall, v, failedChecks, clients>>

----------------------------------------------------------------------------
(* Bounds *)
MaxTokens == 2      \* tokens issued in a run
MaxReqs == 2        \* token-handler requests in a run
MaxNow == 36        \* last hour the clock reaches
ClockStep == 12     \* hours the clock advances per step
MaxSalt == 2        \* distinct bcrypt salts drawn
MaxUsers == 2       \* rows inserted into users
MaxChecks == 3      \* failed checks recorded on one Validator
MaxClients == 2     \* concurrent callers of UserModel.Update

(* Program constants *)
TTL == 24           \* 24*time.Hour, in hours
BcryptCost == 12    \* bcrypt.GenerateFromPassword(..., 12)
MinPasswordLen == 8
MaxPasswordLen == 32
MaxEmailLen == 500

----------------------------------------------------------------------------
(* Values *)

\* A Go nil pointer / nil error / nil slice, per type.
NilErr == "nil"
ErrRecordNotFound == "record not found"
ErrEditConflict == "edit conflict"
ErrDuplicateEmail == "duplicate email"
ErrDB == "storage error"
ErrSend == "send error"
ErrHash == "bcrypt error"

ScopeActivation == "activation"
ScopePasswordReset == "password_reset"
ScopeAuthentication == "authentication"
Scopes == {ScopeActivation, ScopePasswordReset, ScopeAuthentication}

\* Byte strings that travel between the holder and the store.  A plaintext is
\* the base32 text of 16 random bytes; the digest is SHA-256 of it: a different
\* byte string of a different length, so the two never compare equal.
NoBytes == [alg |-> "none", of |-> 0]
PlainText(n) == [alg |-> "base32", of |-> n]
Sha256(b) == [alg |-> "sha256", of |-> b.of]


\* bcrypt output: cost and salt are embedded, the password is not recoverable;
\* pw records which password CompareHashAndPassword accepts.
NoHash == [alg |-> "none", cost |-> 0, salt |-> 0, pw |-> ""]
Bcrypt(plainText, salt) ==
    [alg |-> "bcrypt", cost |-> BcryptCost, salt |-> salt, pw |-> plainText]

NoPlain == [set |-> FALSE, s |-> ""]          \* plainText *string = nil
PtrTo(s) == [set |-> TRUE, s |-> s]           \* &plainText

Long33 == "abcdefghijklmnopqrstuvwxyz0123456"
Emails == {"", "not-an-email", "alice@example.com", "bob@example.com",
           "carol@example.com"}
Passwords == {"", "short", "pa55word", "wr0ngpass", Long33}
Names == {"", "Alice"}
Fields == {"name", "email", "password"}

----------------------------------------------------------------------------
(* validator.Validator *)

NoErrors == [k \in {} |-> ""]

AddError(errs, key, message) ==
    IF key \in DOMAIN errs THEN errs
    ELSE [k \in DOMAIN errs \cup {key} |-> IF k = key THEN message ELSE errs[k]]

Check(errs, ok, key, message) ==
    IF ~ok THEN AddError(errs, key, message) ELSE errs

Valid(errs) == Cardinality(DOMAIN errs) = 0

\* validator.Matches(email, validator.EmailRX)
EmailRXMatches(email) ==
    email \in {"alice@example.com", "bob@example.com", "carol@example.com"}

----------------------------------------------------------------------------
(* internal/data/users.go: validation *)

ValidateEmailSwapped(errs, email) ==
    Check(Check(errs, EmailRXMatches(email), "email", "must be a valid email"),
          email # "", "email", "must be provided")

ValidateEmail(errs, email) ==
    Check(Check(errs, email # "", "email", "must be provided"),
          EmailRXMatches(email), "email", "must be a valid email")

ValidatePasswordPlainText(errs, password) ==
    Check(Check(Check(errs, password # "", "password", "must be provided"),
                Len(password) >= MinPasswordLen, "password",
                "must be more than 8 characters"),
          Len(password) <= MaxPasswordLen, "password",
          "must not be lower than 32 characters")

\* ValidateUser panics when the hash is missing; the checks made before the
\* panic are lost with the request.
ValidateUser(errs, u) ==
    LET e1 == Check(errs, u.name # "", "name", "must be provided")
        e2 == Check(e1, Len(u.email) <= MaxEmailLen, "email",
                    "must not be more than 500 characters")
        e3 == ValidateEmail(e2, u.email)
        e4 == IF u.password.plainText.set
              THEN ValidatePasswordPlainText(e3, u.password.plainText.s)
              ELSE e3
    IN  [panic |-> u.password.hash = NoHash, errs |-> e4]

----------------------------------------------------------------------------
(* internal/data/users.go: password *)

\* password.Set: err # nil models bcrypt.GenerateFromPassword failing.
SetClearsPlainText(p, plainText, salt, fail) ==
    IF fail THEN [p |-> p, err |-> ErrHash]
    ELSE [p |-> [plainText |-> NoPlain, hash |-> Bcrypt(plainText, salt)],
          err |-> NilErr]

Set(p, plainText, salt, fail) ==
    IF fail THEN [p |-> p, err |-> ErrHash]
    ELSE [p |-> [plainText |-> PtrTo(plainText),
                 hash |-> Bcrypt(plainText, salt)],
          err |-> NilErr]

\* password.Matches: a hash that is not bcrypt output is an error, a wrong
\* password is (false, nil).
Matches(p, plainText) ==
    IF p.hash.alg # "bcrypt" THEN [match |-> FALSE, err |-> ErrHash]
    ELSE [match |-> p.hash.pw = plainText, err |-> NilErr]

----------------------------------------------------------------------------
(* internal/data/users.go: UserModel *)

NoPassword == [plainText |-> NoPlain, hash |-> NoHash]
NoUser == [id |-> 0, name |-> "", email |-> "", password |-> NoPassword,
           activated |-> FALSE, version |-> 0]

\* The User that Scan fills from a row: the hash only, never a plaintext.
Scanned(row) ==
    [id |-> row.id, name |-> row.name, email |-> row.email,
     password |-> [plainText |-> NoPlain, hash |-> row.password_hash],
     activated |-> row.activated, version |-> row.version]

UserIds == DOMAIN users

GetByEmail(email, dbErr) ==
    LET ids == {i \in UserIds : users[i].email = email}
    IN  IF dbErr THEN [user |-> NoUser, err |-> ErrDB]
        ELSE IF ids = {} THEN [user |-> NoUser, err |-> ErrRecordNotFound]
        ELSE [user |-> Scanned(users[CHOOSE i \in ids : TRUE]), err |-> NilErr]

\* INSERT ... RETURNING id, created_at, version; email is unique, a new row
\* gets the next id and version 1.
Insert(u, dbErr) ==
    IF dbErr THEN [users |-> users, user |-> u, err |-> ErrDB]
    ELSE IF \E i \in UserIds : users[i].email = u.email
    THEN [users |-> users, user |-> u, err |-> ErrDuplicateEmail]
    ELSE LET id == Cardinality(UserIds) + 1
             row == [id |-> id, name |-> u.name, email |-> u.email,
                     password_hash |-> u.password.hash,
                     activated |-> u.activated, version |-> 1]
         IN  [users |-> [i \in UserIds \cup {id} |->
                            IF i = id THEN row ELSE users[i]],
              user |-> [u EXCEPT !.id = id, !.version = 1],
              err |-> NilErr]

\* UPDATE users SET name, email, password_hash, activated
\*   WHERE id = $5 AND version = $6 RETURNING version
\* The SET list does not touch version: RETURNING hands back the old one.
Update(user, dbErr) ==
    LET ids == {i \in UserIds : users[i].id = user.id
                                /\ users[i].version = user.version}
    IN  IF dbErr THEN [users |-> users, user |-> user, err |-> ErrDB]
        ELSE IF ids = {} THEN [users |-> users, user |-> user,
                               err |-> ErrEditConflict]
        ELSE IF \E i \in UserIds \ ids : users[i].email = user.email
        THEN [users |-> users, user |-> user, err |-> ErrDuplicateEmail]
        ELSE [users |-> [i \in UserIds |->
                            IF i \in ids
                            THEN [users[i] EXCEPT
                                      !.name = user.name,
                                      !.email = user.email,
                                      !.password_hash = user.password.hash,
                                      !.activated = user.activated]
                            ELSE users[i]],
              user |-> [user EXCEPT
                            !.version = users[CHOOSE i \in ids : TRUE].version],
              err |-> NilErr]

\* SELECT users.* FROM users INNER JOIN tokens ON users.id = tokens.user_id
\*   WHERE tokens.scope = $1 AND tokens.hash = $2
\* $2 is the argument as given: no digest is taken, and expiry is not read.
GetForTokenRowsAnyScope(tokenScope, tokenPlainText) ==
    {t \in tokens : /\ t.hash = tokenPlainText
                    /\ \E i \in UserIds : users[i].id = t.user_id}

GetForTokenRows(tokenScope, tokenPlainText) ==
    {t \in tokens : /\ t.scope = tokenScope
                    /\ t.hash = tokenPlainText
                    /\ \E i \in UserIds : users[i].id = t.user_id}

\* The results QueryRowContext(...).Scan can give: one per matching row.
GetForToken(tokenScope, tokenPlainText, dbErr) ==
    LET rows == GetForTokenRows(tokenScope, tokenPlainText)
    IN  IF dbErr THEN {[user |-> NoUser, err |-> ErrDB]}
        ELSE IF rows = {} THEN {[user |-> NoUser, err |-> ErrRecordNotFound]}
        ELSE {[user |-> Scanned(users[t.user_id]), err |-> NilErr] : t \in rows}

----------------------------------------------------------------------------
(* internal/data/tokens.go: TokenModel.New *)

NoToken == [plainText |-> NoBytes, hash |-> NoBytes, user_id |-> 0,
            expiry |-> 0, scope |-> ""]

\* generateToken + Insert: a fresh random plaintext, its SHA-256 as the stored
\* hash, expiry = now + ttl.  On a storage error no row is written.
New(userID, ttl, scope, dbErr) ==
    LET plain == PlainText(nextTok + 1)
        token == [plainText |-> plain, hash |-> Sha256(plain),
                  user_id |-> userID, expiry |-> now + ttl, scope |-> scope]
    IN  IF dbErr THEN [token |-> NoToken, rows |-> {}, err |-> ErrDB]
        ELSE [token |-> token,
              rows |-> {[hash |-> token.hash, user_id |-> userID,
                         expiry |-> token.expiry, scope |-> scope]},
              err |-> NilErr]

----------------------------------------------------------------------------
(* cmd/api/tokens.go: the password-reset and activation handlers *)

ReqIds == 1..MaxReqs
Faults == {"none", "readJSON", "GetByEmail", "New"}

NoResp == [kind |-> "none", errors |-> NoErrors, token |-> NoBytes]
Resp(kind) == [kind |-> kind, errors |-> NoErrors, token |-> NoBytes]
FailedValidation(errs) ==
    [kind |-> "failedValidationResponse", errors |-> errs, token |-> NoBytes]

\* A handler that returned before app.background.
Return(resp) ==
    [resp |-> resp, dispatch |-> FALSE, user |-> NoUser, token |-> NoToken,
     rows |-> {}, template |-> ""]

\* A handler that reached app.background: the closure captures user and token.
Background(user, new, template) ==
    [resp |-> NoResp, dispatch |-> TRUE, user |-> user, token |-> new.token,
     rows |-> new.rows, template |-> template]

createPasswordResetTokenHandler(email, fault) ==
    LET errs == ValidateEmail(NoErrors, email)
        got == GetByEmail(email, fault = "GetByEmail")
        new == New(got.user.id, TTL, ScopePasswordReset, fault = "New")
    IN  IF fault = "readJSON" THEN Return(Resp("badRequestResponse"))
        ELSE IF ~Valid(errs) THEN Return(FailedValidation(errs))
        ELSE IF got.err = ErrRecordNotFound
        THEN Return(Resp("notFoundResponse"))
        ELSE IF got.err # NilErr THEN Return(Resp("serverErrorResponse"))
        ELSE IF ~got.user.activated
        THEN Return(FailedValidation(
                        AddError(errs, "email", "user is not activated")))
        ELSE IF new.err # NilErr THEN Return(Resp("serverErrorResponse"))
        ELSE Background(got.user, new, "token_password_reset")

createActivationTokenHandlerResetScope(email, fault) ==
    LET errs == ValidateEmail(NoErrors, email)
        got == GetByEmail(email, fault = "GetByEmail")
        new == New(got.user.id, TTL, ScopePasswordReset, fault = "New")
    IN  IF fault = "readJSON" THEN Return(Resp("badRequestResponse"))
        ELSE IF ~Valid(errs) THEN Return(FailedValidation(errs))
        ELSE IF got.err = ErrRecordNotFound
        THEN Return(FailedValidation(
                        AddError(errs, "email", "user is not activated")))
        ELSE IF got.err # NilErr THEN Return(Resp("serverErrorResponse"))
        ELSE IF got.user.activated
        THEN Return(FailedValidation(
                        AddError(errs, "email", "user is activated")))
        ELSE IF new.err # NilErr THEN Return(Resp("serverErrorResponse"))
        ELSE Background(got.user, new, "token_activation")

createActivationTokenHandler(email, fault) ==
    LET errs == ValidateEmail(NoErrors, email)
        got == GetByEmail(email, fault = "GetByEmail")
        new == New(got.user.id, TTL, ScopeActivation, fault = "New")
    IN  IF fault = "readJSON" THEN Return(Resp("badRequestResponse"))
        ELSE IF ~Valid(errs) THEN Return(FailedValidation(errs))
        ELSE IF got.err = ErrRecordNotFound
        THEN Return(FailedValidation(
                        AddError(errs, "email", "user is not activated")))
        ELSE IF got.err # NilErr THEN Return(Resp("serverErrorResponse"))
        ELSE IF got.user.activated
        THEN Return(FailedValidation(
                        AddError(errs, "email", "user is activated")))
        ELSE IF new.err # NilErr THEN Return(Resp("serverErrorResponse"))
        ELSE Background(got.user, new, "token_activation")

\* The tail of both handlers: `if err := app.writeJSON(w, http.StatusAccepted,
\* envelope{"message": ...}, nil); err != nil` declares its own err; encoding
\* a constant string map does not fail.
WriteAcceptedOuterErr(r) ==
    IF reqs[r].err # NilErr THEN Resp("serverErrorResponse")
    ELSE Resp("StatusAccepted")

WriteAccepted(r) == Resp("StatusAccepted")

IdleReq == [handler |-> "none", pc |-> "idle", user |-> NoUser,
            token |-> NoToken, err |-> NilErr, resp |-> NoResp]

\* Requests are served in the order of their ids.
NextIdle(r) ==
    /\ reqs[r].pc = "idle"
    /\ \A q \in ReqIds : q < r => reqs[q].pc # "idle"

\* One handler call, up to its return or to app.background.
Serve(r, handler, out) ==
    /\ NextIdle(r)
    /\ out.dispatch => nextTok < MaxTokens
    /\ reqs' = [reqs EXCEPT ![r] =
                   [handler |-> handler,
                    pc |-> IF out.dispatch THEN "respond" ELSE "done",
                    user |-> out.user, token |-> out.token,
                    err |-> NilErr, resp |-> out.resp]]
    /\ tokens' = tokens \cup out.rows
    /\ nextTok' = IF out.dispatch THEN nextTok + 1 ELSE nextTok
    /\ issued' = IF out.dispatch THEN issued \cup {out.token} ELSE issued
    /\ tasks' = IF out.dispatch
                THEN tasks \cup {[req |-> r, recipient |-> out.user.email,
                                  template |-> out.template,
                                  data |-> out.token.plainText,
                                  state |-> "pending"]}
                ELSE tasks

PasswordResetRequest(r) ==
    \E email \in Emails, fault \in Faults :
        /\ Serve(r, "createPasswordResetTokenHandler",
                 createPasswordResetTokenHandler(email, fault))
        /\ UNCHANGED <<users, now, errLog, accesses, lastResolve, lastAuth,
                       cred, lastCall, v, failedChecks, clients>>

ActivationRequest(r) ==
    \E email \in Emails, fault \in Faults :
        /\ Serve(r, "createActivationTokenHandler",
                 createActivationTokenHandler(email, fault))
        /\ UNCHANGED <<users, now, errLog, accesses, lastResolve, lastAuth,
                       cred, lastCall, v, failedChecks, clients>>

\* The handler's goroutine after app.background: writes the response.
Respond(r) ==
    /\ reqs[r].pc = "respond"
    /\ reqs' = [reqs EXCEPT ![r].pc = "done", ![r].resp = WriteAccepted(r)]
    /\ UNCHANGED <<users, tokens, now, nextTok, issued, tasks, errLog, accesses,
                   lastResolve, lastAuth, cred, lastCall, v, failedChecks, clients>>

\* The closure, run by app.background on its own goroutine:
\*   err = app.mailer.Send(user.Email, template, {token.PlainText})
\*   if err != nil { app.logger.PrintError(err, nil) }
\* err is the handler's variable, captured by reference.
RunTask(t, sendErr) ==
    /\ t \in tasks
    /\ t.state = "pending"
    /\ tasks' = (tasks \ {t}) \cup
                {[t EXCEPT !.state = IF sendErr = NilErr THEN "sent"
                                     ELSE "failed"]}
    /\ reqs' = [reqs EXCEPT ![t.req].err = sendErr]
    /\ errLog' = IF sendErr # NilErr
                 THEN errLog \cup {[req |-> t.req, err |-> sendErr]}
                 ELSE errLog
    /\ accesses' = accesses \cup
                   {[req |-> t.req, by |-> "task", var |-> "user",
                     mode |-> "read"],
                    [req |-> t.req, by |-> "task", var |-> "token",
                     mode |-> "read"],
                    [req |-> t.req, by |-> "task", var |-> "err",
                     mode |-> "write"],
                    [req |-> t.req, by |-> "task", var |-> "err",
                     mode |-> "read"]}
    /\ UNCHANGED <<users, tokens, now, nextTok, issued, lastResolve, lastAuth, cred,
                   lastCall, v, failedChecks, clients>>

Background_task ==
    \E t \in tasks, sendErr \in {NilErr, ErrSend} : RunTask(t, sendErr)

NoResolve == [called |-> FALSE, scope |-> "", arg |-> NoBytes, at |-> 0,
              user |-> NoUser, err |-> NilErr]

\* issue(user_id, ttl, scope) as the handlers call it (tokens.go:112, :168):
\* TokenModel.New for a stored user, with a scope the handlers use.
Issue ==
    \E i \in UserIds, scope \in {ScopeActivation, ScopePasswordReset},
       dbErr \in BOOLEAN :
        LET new == New(users[i].id, TTL, scope, dbErr)
        IN  /\ nextTok < MaxTokens
            /\ tokens' = tokens \cup new.rows
            /\ nextTok' = nextTok + 1
            /\ issued' = IF new.err = NilErr THEN issued \cup {new.token}
                          ELSE issued
            /\ lastResolve' = NoResolve
            /\ UNCHANGED <<users, now, reqs, tasks, errLog, accesses,
                           lastAuth, cred, lastCall, v, failedChecks, clients>>

Tick ==
    /\ now + ClockStep <= MaxNow
    /\ now' = now + ClockStep
    /\ lastResolve' = NoResolve
    /\ UNCHANGED <<users, tokens, nextTok, issued, reqs, tasks, errLog,
                   accesses, lastAuth, cred, lastCall, v, failedChecks, clients>>

\* What a holder can present: a plaintext it was handed, or the bytes of a
\* stored hash.
Presentable ==
    {PlainText(n) : n \in 1..MaxTokens} \cup
    {Sha256(PlainText(n)) : n \in 1..MaxTokens}

Resolve ==
    \E scope \in Scopes, arg \in Presentable, dbErr \in BOOLEAN :
        \E res \in GetForToken(scope, arg, dbErr) :
            /\ lastResolve' = [called |-> TRUE, scope |-> scope, arg |-> arg,
                               at |-> now, user |-> res.user, err |-> res.err]
            /\ UNCHANGED <<users, tokens, now, nextTok, issued, reqs, tasks, errLog,
                           accesses, lastAuth, cred, lastCall, v, failedChecks,
                           clients>>

----------------------------------------------------------------------------
(* Token lifecycle: the two handlers, their background tasks, the clock and *)
(* UserModel.GetForToken, over a users table with an activated and a        *)
(* not yet activated account.                                               *)

SeedUsers ==
    [i \in 1..2 |->
        IF i = 1
        THEN [id |-> 1, name |-> "Alice", email |-> "alice@example.com",
              password_hash |-> Bcrypt("pa55word", 1), activated |-> TRUE,
              version |-> 1]
        ELSE [id |-> 2, name |-> "Bob", email |-> "bob@example.com",
              password_hash |-> Bcrypt("wr0ngpass", 1), activated |-> FALSE,
              version |-> 1]]

NoAuth == [called |-> FALSE, email |-> "", password |-> "", exists |-> FALSE,
           wrong |-> FALSE, fault |-> "none", resp |-> NoResp, prev |-> "none"]
NoCall == [op |-> "none", arg |-> "", fresh |-> FALSE, err |-> NilErr,
           before |-> NoPassword, panic |-> FALSE]
ClientIds == 1..MaxClients
IdleClient == [pc |-> "idle", user |-> NoUser, carried |-> 0, err |-> NilErr]

tokenVars == <<tokens, now, nextTok, issued, reqs, tasks, errLog, accesses,
               lastResolve>>
dataVars == <<cred, lastCall, v, failedChecks>>

InitTokenVars ==
    /\ tokens = {}
    /\ now = 0
    /\ nextTok = 0
    /\ issued = {}
    /\ reqs = [r \in ReqIds |-> IdleReq]
    /\ tasks = {}
    /\ errLog = {}
    /\ accesses = {}
    /\ lastResolve = NoResolve

InitDataVars ==
    /\ cred = NoPassword
    /\ lastCall = NoCall
    /\ v = NoErrors
    /\ failedChecks = <<>>

InitTokens ==
    /\ InitTokenVars
    /\ InitDataVars
    /\ users = SeedUsers
    /\ lastAuth = NoAuth
    /\ clients = [c \in ClientIds |-> IdleClient]

NextTokens ==
    \/ \E r \in ReqIds : PasswordResetRequest(r)
    \/ \E r \in ReqIds : ActivationRequest(r)
    \/ \E r \in ReqIds : Respond(r)
    \/ Background_task

SpecTokens == InitTokens /\ [][NextTokens]_vars

(* The token store alone: issue, the clock, resolve. *)
NextStore ==
    \/ Issue
    \/ Tick
    \/ Resolve

SpecStore == InitTokens /\ [][NextStore]_vars

----------------------------------------------------------------------------
(* Claims about the token store (SpecStore) *)

\* The last GetForToken call presented the plaintext of issued token t.
PresentedPlain(t) == lastResolve.called /\ lastResolve.arg = t.plainText
\* ... or presented something that identifies t: its plaintext or the bytes
\* of its stored hash.
Presented(t) ==
    /\ lastResolve.called
    /\ lastResolve.arg = t.plainText \/ lastResolve.arg = t.hash

\* C1: a resolve with the scope and the plaintext of an issued token, made
\* before the token's expiry and answered by the store, returns the user the
\* token was issued to.
C1_ResolveReturnsIssuedUser ==
    \A t \in issued :
        ( /\ PresentedPlain(t)
          /\ lastResolve.scope = t.scope
          /\ lastResolve.at < t.expiry
          /\ lastResolve.err # ErrDB )
        => /\ lastResolve.err = NilErr
           /\ lastResolve.user.id = t.user_id

\* C2: a resolve that reaches an issued token by scope and hash after the
\* token's expiry has passed fails with ErrRecordNotFound and returns no user.
C2_ExpiredIsNotFound ==
    \A t \in issued :
        ( /\ Presented(t)
          /\ lastResolve.scope = t.scope
          /\ lastResolve.at > t.expiry
          /\ lastResolve.err # ErrDB )
        => /\ lastResolve.err = ErrRecordNotFound
           /\ lastResolve.user = NoUser

\* C3: a resolve that names a token issued with another scope returns no user
\* and, when the store answers, fails with ErrRecordNotFound, whatever else
\* is stored.
C3_OtherScopeIsNotFound ==
    \A t \in issued :
        (Presented(t) /\ lastResolve.scope # t.scope)
        => /\ lastResolve.user = NoUser
           /\ lastResolve.err # ErrDB => lastResolve.err = ErrRecordNotFound

\* C3's case: the stored hash of a token is presented under another scope,
\* for which the same user holds a token too, and the store answers.
C3_Witness ==
    \E t \in issued, o \in issued :
        /\ lastResolve.called
        /\ lastResolve.arg = t.hash
        /\ lastResolve.scope # t.scope
        /\ o.scope = lastResolve.scope
        /\ o.user_id = t.user_id
        /\ lastResolve.err = ErrRecordNotFound

----------------------------------------------------------------------------
(* Claims about the handlers and their background tasks (SpecTokens) *)

HandlerScope(handler) ==
    IF handler = "createPasswordResetTokenHandler" THEN ScopePasswordReset
    ELSE ScopeActivation
HandlerTemplate(handler) ==
    IF handler = "createPasswordResetTokenHandler" THEN "token_password_reset"
    ELSE "token_activation"

C6_TaskOnlyReads ==
    \A a \in accesses : a.by = "task" => a.mode = "read"

\* C9: every dispatched send belongs to a request that issued a token for the
\* recipient with the handler's scope and carries that token's plaintext; a
\* request that dispatched nothing issued nothing; no response holds a
\* plaintext.
C9_SendFollowsIssue ==
    /\ \A t \in tasks :
          LET q == reqs[t.req]
          IN  /\ q.token \in issued
              /\ t.data = q.token.plainText
              /\ q.token.scope = HandlerScope(q.handler)
              /\ t.template = HandlerTemplate(q.handler)
              /\ q.token.user_id = q.user.id
              /\ t.recipient = q.user.email
              /\ \E row \in tokens : /\ row.hash = Sha256(t.data)
                                     /\ row.scope = HandlerScope(q.handler)
                                     /\ row.user_id = q.user.id
                                     /\ users[row.user_id].email = t.recipient
    /\ \A r \in ReqIds :
          (\A t \in tasks : t.req # r)
          => /\ reqs[r].token = NoToken
             /\ reqs[r].pc # "respond"
             /\ reqs[r].resp.kind # "StatusAccepted"
    /\ Cardinality(tokens) = Cardinality(tasks)
    /\ \A r \in ReqIds : reqs[r].resp.token = NoBytes

\* C9's case: one request sent an activation mail after its issue, another
\* ended at a failed token issue with nothing dispatched.
C9_Witness ==
    \E t \in tasks, r \in ReqIds :
        /\ t.state = "sent"
        /\ t.template = "token_activation"
        /\ reqs[t.req].pc = "done"
        /\ t.req # r
        /\ reqs[r].pc = "done"
        /\ reqs[r].resp.kind = "serverErrorResponse"
        /\ \A u \in tasks : u.req # r

----------------------------------------------------------------------------
(* cmd/api/tokens.go: createAuthenticationHandler *)

AuthFaults == {"none", "readJSON", "GetByEmail", "HMACSign"}

\* The signed claims: Subject is the user id; the service name and the
\* validity window are constants of the handler.
Jwt(user) == [alg |-> "HS256", of |-> user.id]
Created(user) ==
    [kind |-> "StatusCreated", errors |-> NoErrors, token |-> Jwt(user)]

createAuthenticationHandlerNotFound(email, password, fault) ==
    LET errs == ValidatePasswordPlainText(ValidateEmail(NoErrors, email),
                                          password)
        got == GetByEmail(email, fault = "GetByEmail")
        m == Matches(got.user.password, password)
    IN  IF fault = "readJSON" THEN Resp("badRequestResponse")
        ELSE IF ~Valid(errs) THEN FailedValidation(errs)
        ELSE IF got.err = ErrRecordNotFound THEN Resp("notFoundResponse")
        ELSE IF got.err # NilErr THEN Resp("serverErrorResponse")
        ELSE IF m.err # NilErr THEN Resp("serverErrorResponse")
        ELSE IF ~m.match THEN Resp("invalidCredentialsResponse")
        ELSE IF fault = "HMACSign" THEN Resp("serverErrorResponse")
        ELSE Created(got.user)

createAuthenticationHandler(email, password, fault) ==
    LET errs == ValidatePasswordPlainText(ValidateEmail(NoErrors, email),
                                          password)
        got == GetByEmail(email, fault = "GetByEmail")
        m == Matches(got.user.password, password)
    IN  IF fault = "readJSON" THEN Resp("badRequestResponse")
        ELSE IF ~Valid(errs) THEN FailedValidation(errs)
        ELSE IF got.err = ErrRecordNotFound
        THEN Resp("invalidCredentialsResponse")
        ELSE IF got.err # NilErr THEN Resp("serverErrorResponse")
        ELSE IF m.err # NilErr THEN Resp("serverErrorResponse")
        ELSE IF ~m.match THEN Resp("invalidCredentialsResponse")
        ELSE IF fault = "HMACSign" THEN Resp("serverErrorResponse")
        ELSE Created(got.user)

\* One authentication request.  exists and wrong record, from the table as it
\* is when the request is served, whether the email has an account and
\* whether the password differs from the one the account's hash was made of;
\* prev is the response to the request before it when that one was a
\* shape-valid, answered request with a wrong password for an account.
Authenticate ==
    \E email \in Emails, password \in Passwords, fault \in AuthFaults :
        LET ids == {i \in UserIds : users[i].email = email}
            resp == createAuthenticationHandler(email, password, fault)
        IN  /\ lastAuth' =
                  [called |-> TRUE, email |-> email, password |-> password,
                   exists |-> ids # {},
                   wrong |-> \E i \in ids : users[i].password_hash.pw # password,
                   fault |-> fault, resp |-> resp,
                   prev |-> IF /\ lastAuth.called
                               /\ lastAuth.fault = "none"
                               /\ lastAuth.wrong
                               /\ Valid(ValidatePasswordPlainText(
                                            NoErrors, lastAuth.password))
                            THEN lastAuth.resp.kind
                            ELSE "other"]
            /\ UNCHANGED <<users, clients, tokenVars, dataVars>>

\* A new account: the password goes through password.Set, the row through
\* UserModel.Insert.
InsertUser ==
    \E email \in {"alice@example.com", "bob@example.com"},
       plainText \in {"pa55word", "wr0ngpass"}, salt \in 1..MaxSalt,
       dbErr \in BOOLEAN :
        LET set == Set(NoPassword, plainText, salt, FALSE)
            u == [NoUser EXCEPT !.name = "Alice", !.email = email,
                                !.password = set.p]
        IN  /\ Cardinality(UserIds) < MaxUsers
            /\ users' = Insert(u, dbErr).users
            /\ UNCHANGED <<lastAuth, clients, tokenVars, dataVars>>

InitAuth ==
    /\ InitTokenVars
    /\ InitDataVars
    /\ users = [i \in {} |-> NoUser]
    /\ lastAuth = NoAuth
    /\ clients = [c \in ClientIds |-> IdleClient]

NextAuth ==
    \/ InsertUser
    \/ Authenticate

SpecAuth == InitAuth /\ [][NextAuth]_vars

\* The email and the password of the last request pass validation.
ShapeValid(email, password) ==
    /\ EmailRXMatches(email)
    /\ Len(password) >= MinPasswordLen
    /\ Len(password) <= MaxPasswordLen

\* C4: a shape-valid request whose lookup the store answers gets
\* invalidCredentialsResponse both when the email has no account and when it
\* has one and the password is wrong: never notFoundResponse.
C4_NoAccountLooksLikeWrongPassword ==
    ( /\ lastAuth.called
      /\ lastAuth.fault = "none"
      /\ ShapeValid(lastAuth.email, lastAuth.password)
      /\ ~lastAuth.exists \/ lastAuth.wrong )
    => lastAuth.resp = Resp("invalidCredentialsResponse")

\* C4's case: a request for an email without account follows a request with a
\* wrong password for an existing account, and both got the same response.
C4_Witness ==
    /\ lastAuth.called
    /\ lastAuth.fault = "none"
    /\ ShapeValid(lastAuth.email, lastAuth.password)
    /\ ~lastAuth.exists
    /\ lastAuth.prev = "invalidCredentialsResponse"
    /\ lastAuth.resp.kind = lastAuth.prev

----------------------------------------------------------------------------
(* password.Set and ValidateUser on one credential *)

Call(op, arg) ==
    [op |-> op, arg |-> arg, fresh |-> FALSE, err |-> NilErr,
     before |-> NoPassword, panic |-> FALSE]

SetPassword ==
    \E plainText \in Passwords, salt \in 1..MaxSalt, fail \in BOOLEAN :
        LET res == Set(cred, plainText, salt, fail)
        IN  /\ cred' = res.p
            /\ lastCall' = [Call("Set", plainText) EXCEPT
                               !.err = res.err, !.before = cred]
            /\ UNCHANGED <<users, lastAuth, clients, tokenVars, v,
                           failedChecks>>

\* ValidateUser on a user holding the credential, with a new Validator.
ValidateUserCall ==
    \E name \in Names, email \in Emails :
        LET u == [NoUser EXCEPT !.name = name, !.email = email,
                                !.password = cred]
            res == ValidateUser(NoErrors, u)
        IN  /\ v' = IF res.panic THEN v ELSE res.errs
            /\ lastCall' = [Call("ValidateUser", email) EXCEPT
                               !.before = cred, !.panic = res.panic]
            /\ UNCHANGED <<users, lastAuth, clients, tokenVars, cred,
                           failedChecks>>

InitSeeded ==
    /\ InitTokenVars
    /\ InitDataVars
    /\ users = SeedUsers
    /\ lastAuth = NoAuth
    /\ clients = [c \in ClientIds |-> IdleClient]

NextPassword ==
    \/ SetPassword
    \/ ValidateUserCall

SpecPassword == InitSeeded /\ [][NextPassword]_vars

\* C7 as stated: after a Set that returned nil the credential holds the hash
\* and no reference to the plaintext.
C7_PlainTextCleared ==
    (lastCall.op = "Set" /\ lastCall.err = NilErr)
    => /\ cred.hash.alg = "bcrypt"
       /\ cred.plainText = NoPlain

\* C7 amended: after a Set that returned nil the credential holds the bcrypt
\* hash of the plaintext and a reference to that plaintext.
C7_PlainTextKept ==
    (lastCall.op = "Set" /\ lastCall.err = NilErr)
    => /\ cred.hash.alg = "bcrypt"
       /\ cred.hash.cost = BcryptCost
       /\ cred.hash.pw = lastCall.arg
       /\ cred.plainText = PtrTo(lastCall.arg)

\* C7's case: Set has returned nil on a credential that already held another
\* password.
C7_Witness ==
    /\ lastCall.op = "Set"
    /\ lastCall.err = NilErr
    /\ lastCall.before.plainText.set
    /\ lastCall.before.plainText.s # lastCall.arg
    /\ cred.plainText.set

----------------------------------------------------------------------------
(* validator.Validator under its callers' checks *)

Failed(ok, key, message) == IF ok THEN <<>> ELSE << <<key, message>> >>

NewValidator ==
    /\ v' = NoErrors
    /\ failedChecks' = <<>>
    /\ lastCall' = Call("New", "")
    /\ UNCHANGED <<users, lastAuth, clients, tokenVars, cred>>

CheckCall ==
    \E ok \in BOOLEAN, key \in Fields,
       message \in {"must be provided", "must be a valid email"} :
        /\ Len(failedChecks) < MaxChecks
        /\ v' = Check(v, ok, key, message)
        /\ failedChecks' = failedChecks \o Failed(ok, key, message)
        /\ lastCall' = Call("Check", "")
        /\ UNCHANGED <<users, lastAuth, clients, tokenVars, cred>>

\* v.AddError("email", ...) as the handlers call it (tokens.go:107, :154, :163).
AddErrorCall ==
    \E message \in {"user is not activated", "user is activated"} :
        /\ Len(failedChecks) < MaxChecks
        /\ v' = AddError(v, "email", message)
        /\ failedChecks' = Append(failedChecks, <<"email", message>>)
        /\ lastCall' = Call("AddError", "")
        /\ UNCHANGED <<users, lastAuth, clients, tokenVars, cred>>

ValidateEmailCall ==
    \E email \in Emails :
        /\ Len(failedChecks) < MaxChecks
        /\ v' = ValidateEmail(v, email)
        /\ failedChecks' =
              failedChecks
              \o Failed(email # "", "email", "must be provided")
              \o Failed(EmailRXMatches(email), "email", "must be a valid email")
        /\ lastCall' = [Call("ValidateEmail", email) EXCEPT
                           !.fresh = (failedChecks = <<>>)]
        /\ UNCHANGED <<users, lastAuth, clients, tokenVars, cred>>

ValidatePasswordPlainTextCall ==
    \E password \in Passwords :
        /\ Len(failedChecks) < MaxChecks
        /\ v' = ValidatePasswordPlainText(v, password)
        /\ failedChecks' =
              failedChecks
              \o Failed(password # "", "password", "must be provided")
              \o Failed(Len(password) >= MinPasswordLen, "password",
                        "must be more than 8 characters")
              \o Failed(Len(password) <= MaxPasswordLen, "password",
                        "must not be lower than 32 characters")
        /\ lastCall' = Call("ValidatePasswordPlainText", password)
        /\ UNCHANGED <<users, lastAuth, clients, tokenVars, cred>>

NextValidator ==
    \/ NewValidator
    \/ CheckCall
    \/ AddErrorCall
    \/ ValidateEmailCall
    \/ ValidatePasswordPlainTextCall

SpecValidator == InitSeeded /\ [][NextValidator]_vars

FailuresOf(key) == {i \in DOMAIN failedChecks : failedChecks[i][1] = key}
FirstFailureOf(key) ==
    failedChecks[CHOOSE i \in FailuresOf(key) :
                    \A j \in FailuresOf(key) : i <= j][2]

\* C8: the recorded errors are, field by field, the message of the first
\* failed check of that field and nothing else; ValidateEmail of "" on a new
\* Validator leaves exactly email: "must be provided"; Valid is false exactly
\* when some check has failed.
C8_FirstErrorPerField ==
    /\ DOMAIN v = {failedChecks[i][1] : i \in DOMAIN failedChecks}
    /\ \A key \in DOMAIN v : v[key] = FirstFailureOf(key)
    /\ (lastCall.op = "ValidateEmail" /\ lastCall.arg = "" /\ lastCall.fresh)
       => /\ DOMAIN v = {"email"}
          /\ v["email"] = "must be provided"
    /\ Valid(v) <=> failedChecks = <<>>

\* C8's case: a field has failed twice with different messages, the first of
\* them by ValidateEmail of "" on a new Validator.
C8_Witness ==
    /\ Len(failedChecks) >= 2
    /\ failedChecks[1] = <<"email", "must be provided">>
    /\ failedChecks[2] = <<"email", "must be a valid email">>
    /\ lastCall.op = "ValidateEmail"
    /\ lastCall.arg = ""
    /\ lastCall.fresh
    /\ ~Valid(v)

----------------------------------------------------------------------------
(* Callers of UserModel.Update: each reads a row, changes its copy, updates *)

ReadUser(c) ==
    \E i \in UserIds :
        /\ clients[c].pc = "idle"
        /\ clients' = [clients EXCEPT ![c] =
                          [pc |-> "read", user |-> Scanned(users[i]),
                           carried |-> users[i].version, err |-> NilErr]]
        /\ UNCHANGED <<users, lastAuth, tokenVars, dataVars>>

Changes == {"name", "activated", "email"}

Changed(user, change) ==
    CASE change = "name" -> [user EXCEPT !.name = "Alicia"]
      [] change = "activated" -> [user EXCEPT !.activated = ~user.activated]
      [] change = "email" -> [user EXCEPT !.email = "bob@example.com"]

UpdateUser(c) ==
    \E change \in Changes, dbErr \in BOOLEAN :
        LET u == Changed(clients[c].user, change)
            res == Update(u, dbErr)
        IN  /\ clients[c].pc = "read"
            /\ users' = res.users
            /\ clients' = [clients EXCEPT ![c] =
                              [pc |-> "done", user |-> res.user,
                               carried |-> u.version, err |-> res.err]]
            /\ UNCHANGED <<lastAuth, tokenVars, dataVars>>

NextUpdate ==
    \/ \E c \in ClientIds : ReadUser(c)
    \/ \E c \in ClientIds : UpdateUser(c)

SpecUpdate == InitSeeded /\ [][NextUpdate]_vars

\* C10: of two Update calls on the same user that carry the same version, at
\* most one returns nil.
C10_AtMostOneUpdateWins ==
    \A c, d \in ClientIds :
        ( /\ c # d
          /\ clients[c].pc = "done"
          /\ clients[d].pc = "done"
          /\ clients[c].user.id = clients[d].user.id
          /\ clients[c].carried = clients[d].carried )
        => clients[c].err # NilErr \/ clients[d].err # NilErr

====
